---- MODULE Spec2Model ----
(***************************************************************************)
(* Sistema Universidad API: the enrollment rules of main.py over the three *)
(* tables of models.py (estudiante, curso, matricula).                     *)
(*                                                                         *)
(* Spec          the request handlers, one atomic action per handler, over *)
(*               a database file that already holds rows when the process  *)
(*               starts (on_startup only creates missing tables).          *)
(* SpecConcurrente  two clients whose POST and DELETE /matriculas requests *)
(*               interleave: each request reads, then commits.             *)
(* SpecHorario   the pure function horarios_conflicto applied to pairs of  *)
(*               time windows written as "HH:MM-HH:MM" strings.            *)
(* SpecValidar   the field validator validar_horario applied to such       *)
(*               strings.                                                  *)
(* SpecEstudiantes  the handlers that write the estudiante table: create,  *)
(*               update, delete.                                           *)
(* SpecActualizar  every handler, the two PUT handlers included, over a    *)
(*               timetable of back-to-back windows.                        *)
(* SpecCascada   two clients whose Enroll and cascade requests interleave, *)
(*               read by read and commit by commit.                        *)
(* SpecCupo      two clients whose Enroll and Unenroll requests            *)
(*               interleave, read by read and commit by commit.            *)
(***************************************************************************)
EXTENDS Integers, Sequences, FiniteSets, Bags, TLC

VARIABLES
    estudiantes,   \* table estudiante: id -> row
    cursos,        \* table curso: id -> row
    matriculas,    \* table matricula: bag of rows <<estudiante_id, curso_id>>
    respuesta,     \* the last request handled and the HTTP response it got
    sesiones,      \* per client, what its open session holds between its steps
    prueba         \* the last use of a pure function: its arguments and its result

vars == <<estudiantes, cursos, matriculas, respuesta, sesiones, prueba>>

\* ---------------------------------------------------------------- bounds
MaxEstudiantes == 2
MaxCursos == 3
MaxHora == 11

\* ------------------------------------------------------ program constants
CREDITOS_MAXIMOS_POR_SEMESTRE == 20

EstIds == 1..MaxEstudiantes
CurIds == 1..MaxCursos

\* ------------------------------------------------------------- strings
\* A Python str is modelled as a sequence of one-character strings, so that
\* split() and int() are computed and not assumed.
Digitos == <<"0", "1", "2", "3", "4", "5", "6", "7", "8", "9">>

\* int() of one decimal digit
ValorDigito(ch) == (CHOOSE i \in 1..10 : Digitos[i] = ch) - 1

\* int(s) for a string of decimal digits
RECURSIVE Entero(_)
Entero(s) ==
    IF Len(s) = 0 THEN 0
    ELSE Entero(SubSeq(s, 1, Len(s) - 1)) * 10 + ValorDigito(s[Len(s)])

\* s.split(sep)
RECURSIVE Split(_, _)
Split(s, sep) ==
    IF \E i \in 1..Len(s) : s[i] = sep
    THEN LET i == CHOOSE k \in 1..Len(s) :
                      s[k] = sep /\ \A j \in 1..(k - 1) : s[j] # sep
         IN <<SubSeq(s, 1, i - 1)>> \o Split(SubSeq(s, i + 1, Len(s)), sep)
    ELSE <<s>>

\* "%02d" of n in 0..99, and a window of minutes written "HH:MM-HH:MM"
DosDigitos(n) == <<Digitos[(n \div 10) + 1], Digitos[(n % 10) + 1]>>
HoraTexto(minutos) == DosDigitos(minutos \div 60) \o <<":">> \o DosDigitos(minutos % 60)
Formatear(v) == HoraTexto(v[1]) \o <<"-">> \o HoraTexto(v[2])

\* ------------------------------------------------- horarios_conflicto
\* a_minutos: "HH:MM" to minutes since midnight
a_minutos(hora_str) ==
    LET hm == Split(hora_str, ":") IN Entero(hm[1]) * 60 + Entero(hm[2])

\* Mutants of horarios_conflicto: both ends inclusive, and one end inclusive.
horarios_conflicto_inclusivo(horario1, horario2) ==
    LET p1 == Split(horario1, "-")
        p2 == Split(horario2, "-")
        inicio1 == a_minutos(p1[1])
        fin1 == a_minutos(p1[2])
        inicio2 == a_minutos(p2[1])
        fin2 == a_minutos(p2[2])
    IN inicio1 <= fin2 /\ inicio2 <= fin1

horarios_conflicto_lte(horario1, horario2) ==
    LET p1 == Split(horario1, "-")
        p2 == Split(horario2, "-")
        inicio1 == a_minutos(p1[1])
        fin1 == a_minutos(p1[2])
        inicio2 == a_minutos(p2[1])
        fin2 == a_minutos(p2[2])
    IN inicio1 <= fin2 /\ inicio2 < fin1

horarios_conflicto(horario1, horario2) ==
    LET p1 == Split(horario1, "-")
        p2 == Split(horario2, "-")
        inicio1 == a_minutos(p1[1])
        fin1 == a_minutos(p1[2])
        inicio2 == a_minutos(p2[1])
        fin2 == a_minutos(p2[2])
    IN inicio1 < fin2 /\ inicio2 < fin1

\* ------------------------------------------------------------- tables
\* Python None: the id of a request body that carries none, and the
\* parameters a handler does not take.
Ninguno == 0

\* Columns of the mapped classes: the primary key is the key of the table
\* function, the other columns are the fields of the row.
CamposEstudiante == {"cedula"}
CamposCurso == {"codigo", "creditos", "horario"}

\* The row the ORM stores for a request body: the declared columns only,
\* any other key of the body is dropped.
Fila(campos, body) == [f \in campos |-> body[f]]

\* obj.nombre raises AttributeError unless nombre is a declared field
TieneAtributo(obj, nombre) == nombre \in DOMAIN obj

\* Request bodies the clients send, one per id of the catalogue.  POST
\* /cursos documents five fields, cupo_maximo among them; Curso declares
\* four, so the stored row has no cupo_maximo.  The windows: 07:00-09:00 and
\* 09:00-11:00 touch, 08:00-10:00 overlaps both.
CedulaDe(i) == <<"1", "0", "0", "0">> \o DosDigitos(i)
CodigoDe(i) == <<"C", "U", "R">> \o DosDigitos(i)
H0709 == <<"0", "7", ":", "0", "0", "-", "0", "9", ":", "0", "0">>
H0911 == <<"0", "9", ":", "0", "0", "-", "1", "1", ":", "0", "0">>
H0810 == <<"0", "8", ":", "0", "0", "-", "1", "0", ":", "0", "0">>
CuerpoEstudiante(i) == [id |-> i, cedula |-> CedulaDe(i)]
CuerpoCurso(i) ==
    [id |-> i,
     codigo |-> CodigoDe(i),
     creditos |-> IF i % 3 = 0 THEN 5 ELSE 10,
     horario |-> CASE i % 3 = 1 -> H0709 [] i % 3 = 2 -> H0911 [] OTHER -> H0810,
     cupo_maximo |-> IF i % 3 = 2 THEN 2 ELSE 1]

\* The seat capacity a course was created with (the cupo_maximo of its body)
CupoSolicitado(cur, c) ==
    CuerpoCurso(CHOOSE i \in CurIds : CodigoDe(i) = cur[c].codigo).cupo_maximo

\* sum(f[x] for x in S)
RECURSIVE Suma(_, _)
Suma(f, S) ==
    IF S = {} THEN 0
    ELSE LET x == CHOOSE y \in S : TRUE IN f[x] + Suma(f, S \ {x})

\* select(Matricula).where(...): the rows, and how many there are
FilasEstudiante(mat, e) == {m \in BagToSet(mat) : m[1] = e}
FilasCurso(mat, c) == {m \in BagToSet(mat) : m[2] = c}
\* Mutant of FilasPar: the two columns compared with the wrong parameters.
FilasParInvertido(mat, e, c) == {m \in BagToSet(mat) : m[1] = c /\ m[2] = e}
FilasPar(mat, e, c) == {m \in BagToSet(mat) : m[1] = e /\ m[2] = c}
Cuantas(mat, filas) == Suma([m \in filas |-> CopiesIn(m, mat)], filas)

\* session.delete(m) for every m of filas, then commit
Borrar(mat, filas) == [m \in (BagToSet(mat) \ filas) |-> mat[m]]

\* session.add(Matricula(...)), commit: the primary key
\* (estudiante_id, curso_id) rejects a second row for the pair
Insertar(mat, fila) ==
    IF BagIn(fila, mat) THEN [ok |-> FALSE, mat |-> mat]
    ELSE [ok |-> TRUE, mat |-> mat (+) SetToBag({fila})]

\* ---------------------------------------------------------- responses
Respuesta(op, e, c, status, detail, valores) ==
    [op |-> op, estudiante_id |-> e, curso_id |-> c,
     status |-> status, detail |-> detail, valores |-> valores]

SinValores == [sin |-> TRUE]

\* ------------------------------------------------------- POST /matriculas
\* select(Curso).join(Matricula).where(Matricula.estudiante_id == e):
\* one result row per matricula row whose course exists
CursosActuales(cur, mat, e) == {c \in DOMAIN cur : FilasPar(mat, e, c) # {}}
CreditosActuales(cur, mat, e) ==
    Suma([c \in DOMAIN cur |-> CopiesIn(<<e, c>>, mat) * cur[c].creditos],
         CursosActuales(cur, mat, e))

\* the courses of the student whose window overlaps the new course's
EnConflicto(cur, mat, e, c) ==
    {a \in CursosActuales(cur, mat, e) :
        horarios_conflicto(cur[a].horario, cur[c].horario)}

\* Mutant of ValidarMatricula: the course carries the seat capacity it was
\* created with, and the seat check compares against it.
ValidarMatriculaConCupo(est, cur, mat, estudiante_id, curso_id) ==
    LET R(status, detail, valores) ==
            Respuesta("matricular", estudiante_id, curso_id, status, detail, valores)
    IN
    IF estudiante_id \notin DOMAIN est \/ curso_id \notin DOMAIN cur
    THEN R(404, "Estudiante o curso no encontrado", SinValores)
    ELSE IF FilasPar(mat, estudiante_id, curso_id) # {}
    THEN R(409, "El estudiante ya esta matriculado en este curso", SinValores)
    ELSE IF CreditosActuales(cur, mat, estudiante_id) + cur[curso_id].creditos
               > CREDITOS_MAXIMOS_POR_SEMESTRE
    THEN R(400, "Limite de creditos excedido",
           [creditos_actuales |-> CreditosActuales(cur, mat, estudiante_id)])
    ELSE IF Cuantas(mat, FilasCurso(mat, curso_id)) >= CupoSolicitado(cur, curso_id)
    THEN R(409, "El curso esta lleno", SinValores)
    ELSE IF EnConflicto(cur, mat, estudiante_id, curso_id) # {}
    THEN R(409, "Conflicto de horario", SinValores)
    ELSE R(0, "", SinValores)

\* The five validations: the response of the first one that fails, or a
\* response of status 0 when all of them pass (nothing is written here).
ValidarMatricula(est, cur, mat, estudiante_id, curso_id) ==
    LET R(status, detail, valores) ==
            Respuesta("matricular", estudiante_id, curso_id, status, detail, valores)
    IN
    IF estudiante_id \notin DOMAIN est \/ curso_id \notin DOMAIN cur
    THEN R(404, "Estudiante o curso no encontrado", SinValores)
    ELSE IF FilasPar(mat, estudiante_id, curso_id) # {}
    THEN R(409, "El estudiante ya esta matriculado en este curso", SinValores)
    ELSE
    LET curso_nuevo == cur[curso_id]
        creditos_actuales == CreditosActuales(cur, mat, estudiante_id)
        creditos_totales == creditos_actuales + curso_nuevo.creditos
        matriculas_curso == FilasCurso(mat, curso_id)
        estudiantes_inscritos == Cuantas(mat, matriculas_curso)
        conflictos == EnConflicto(cur, mat, estudiante_id, curso_id)
    IN
    IF creditos_totales > CREDITOS_MAXIMOS_POR_SEMESTRE
    THEN R(400, "Limite de creditos excedido",
           [creditos_actuales |-> creditos_actuales])
    ELSE IF ~TieneAtributo(curso_nuevo, "cupo_maximo")
    THEN R(500, "AttributeError: cupo_maximo", SinValores)
    ELSE IF estudiantes_inscritos >= curso_nuevo.cupo_maximo
    THEN R(409, "El curso esta lleno",
           [estudiantes_inscritos |-> estudiantes_inscritos,
            cupo_maximo |-> curso_nuevo.cupo_maximo])
    ELSE IF conflictos # {}
    THEN LET curso_actual == CHOOSE a \in conflictos :
                                 \A b \in conflictos : a <= b
         IN R(409, "Conflicto de horario",
              [curso_actual |-> curso_actual,
               horario_actual |-> cur[curso_actual].horario,
               horario_nuevo |-> curso_nuevo.horario])
    ELSE R(0, "", SinValores)

\* session.add(matricula), session.commit() and the 201 response
GuardarMatricula(mat, estudiante_id, curso_id) ==
    LET ins == Insertar(mat, <<estudiante_id, curso_id>>)
    IN [respuesta |-> IF ins.ok
                      THEN Respuesta("matricular", estudiante_id, curso_id, 201,
                                     "Estudiante matriculado correctamente", SinValores)
                      ELSE Respuesta("matricular", estudiante_id, curso_id, 500,
                                     "IntegrityError", SinValores),
        mat |-> ins.mat]

\* Mutant of MatricularResultado: the row is added and committed before the
\* validations run.
MatricularEscribeAntes(est, cur, mat, estudiante_id, curso_id) ==
    LET v == ValidarMatricula(est, cur, mat, estudiante_id, curso_id)
        g == GuardarMatricula(mat, estudiante_id, curso_id)
    IN IF v.status # 0 THEN [respuesta |-> v, mat |-> g.mat] ELSE g

\* The handler: the response and the matricula table it leaves.
MatricularResultado(est, cur, mat, estudiante_id, curso_id) ==
    LET v == ValidarMatricula(est, cur, mat, estudiante_id, curso_id)
    IN IF v.status # 0
       THEN [respuesta |-> v, mat |-> mat]
       ELSE GuardarMatricula(mat, estudiante_id, curso_id)

matricular_estudiante(estudiante_id, curso_id) ==
    LET r == MatricularResultado(estudiantes, cursos, matriculas,
                                 estudiante_id, curso_id)
    IN /\ matriculas' = r.mat
       /\ respuesta' = r.respuesta
       /\ UNCHANGED <<estudiantes, cursos, prueba, sesiones>>

\* ----------------------------------------------------- DELETE /matriculas
\* Mutant of DesmatricularResultado: the DELETE filters by student only.
DesmatricularTodoElEstudiante(mat, estudiante_id, curso_id) ==
    LET matricula == FilasPar(mat, estudiante_id, curso_id)
    IN IF matricula = {}
       THEN [respuesta |-> Respuesta("desmatricular", estudiante_id, curso_id,
                                     404, "La matricula no existe", SinValores),
             mat |-> mat]
       ELSE [respuesta |-> Respuesta("desmatricular", estudiante_id, curso_id,
                                     200, "Estudiante desmatriculado correctamente",
                                     SinValores),
             mat |-> Borrar(mat, FilasEstudiante(mat, estudiante_id))]

DesmatricularResultado(mat, estudiante_id, curso_id) ==
    LET matricula == FilasPar(mat, estudiante_id, curso_id)
    IN IF matricula = {}
       THEN [respuesta |-> Respuesta("desmatricular", estudiante_id, curso_id,
                                     404, "La matricula no existe", SinValores),
             mat |-> mat]
       ELSE [respuesta |-> Respuesta("desmatricular", estudiante_id, curso_id,
                                     200, "Estudiante desmatriculado correctamente",
                                     SinValores),
             mat |-> Borrar(mat, matricula)]

desmatricular_estudiante(estudiante_id, curso_id) ==
    LET r == DesmatricularResultado(matriculas, estudiante_id, curso_id)
    IN /\ matriculas' = r.mat
       /\ respuesta' = r.respuesta
       /\ UNCHANGED <<estudiantes, cursos, prueba, sesiones>>

\* ------------------------------------------------------------ cascades
\* f without the key k
Quitar(f, k) == [x \in (DOMAIN f \ {k}) |-> f[x]]

\* Mutant of eliminar_estudiante: the student row is deleted, its matricula
\* rows are left.
eliminar_estudiante_sin_matriculas(estudiante_id) ==
    /\ UNCHANGED <<cursos, matriculas, prueba, sesiones>>
    /\ IF estudiante_id \notin DOMAIN estudiantes
       THEN /\ respuesta' = Respuesta("eliminar_estudiante", estudiante_id, Ninguno,
                                      404, "Estudiante no encontrado", SinValores)
            /\ UNCHANGED estudiantes
       ELSE /\ estudiantes' = Quitar(estudiantes, estudiante_id)
            /\ respuesta' = Respuesta("eliminar_estudiante", estudiante_id, Ninguno,
                                      200, "Estudiante y matriculas eliminados",
                                      SinValores)

eliminar_estudiante(estudiante_id) ==
    /\ UNCHANGED <<cursos, prueba, sesiones>>
    /\ IF estudiante_id \notin DOMAIN estudiantes
       THEN /\ respuesta' = Respuesta("eliminar_estudiante", estudiante_id, Ninguno,
                                      404, "Estudiante no encontrado", SinValores)
            /\ UNCHANGED <<estudiantes, matriculas>>
       ELSE /\ matriculas' = Borrar(matriculas, FilasEstudiante(matriculas, estudiante_id))
            /\ estudiantes' = Quitar(estudiantes, estudiante_id)
            /\ respuesta' = Respuesta("eliminar_estudiante", estudiante_id, Ninguno,
                                      200, "Estudiante y matriculas eliminados",
                                      SinValores)

\* Mutant of cancelar_semestre: the select of the rows has no where clause.
cancelar_semestre_de_todos(estudiante_id) ==
    /\ UNCHANGED <<estudiantes, cursos, prueba, sesiones>>
    /\ IF estudiante_id \notin DOMAIN estudiantes
       THEN /\ respuesta' = Respuesta("cancelar_semestre", estudiante_id, Ninguno,
                                      404, "Estudiante no encontrado", SinValores)
            /\ UNCHANGED matriculas
       ELSE IF BagToSet(matriculas) = {}
       THEN /\ respuesta' = Respuesta("cancelar_semestre", estudiante_id, Ninguno,
                                      400, "El estudiante no tiene materias matriculadas",
                                      SinValores)
            /\ UNCHANGED matriculas
       ELSE /\ matriculas' = Borrar(matriculas, BagToSet(matriculas))
            /\ respuesta' = Respuesta("cancelar_semestre", estudiante_id, Ninguno,
                                      200, "El estudiante cancelo el semestre",
                                      SinValores)

cancelar_semestre(estudiante_id) ==
    /\ UNCHANGED <<estudiantes, cursos, prueba, sesiones>>
    /\ IF estudiante_id \notin DOMAIN estudiantes
       THEN /\ respuesta' = Respuesta("cancelar_semestre", estudiante_id, Ninguno,
                                      404, "Estudiante no encontrado", SinValores)
            /\ UNCHANGED matriculas
       ELSE IF FilasEstudiante(matriculas, estudiante_id) = {}
       THEN /\ respuesta' = Respuesta("cancelar_semestre", estudiante_id, Ninguno,
                                      400, "El estudiante no tiene materias matriculadas",
                                      SinValores)
            /\ UNCHANGED matriculas
       ELSE /\ matriculas' = Borrar(matriculas, FilasEstudiante(matriculas, estudiante_id))
            /\ respuesta' = Respuesta("cancelar_semestre", estudiante_id, Ninguno,
                                      200, "El estudiante cancelo el semestre",
                                      SinValores)

\* Mutant of eliminar_curso: the course row is deleted, its matricula rows
\* are left.
eliminar_curso_sin_matriculas(curso_id) ==
    /\ UNCHANGED <<estudiantes, matriculas, prueba, sesiones>>
    /\ IF curso_id \notin DOMAIN cursos
       THEN /\ respuesta' = Respuesta("eliminar_curso", Ninguno, curso_id,
                                      404, "Curso no encontrado", SinValores)
            /\ UNCHANGED cursos
       ELSE /\ cursos' = Quitar(cursos, curso_id)
            /\ respuesta' = Respuesta("eliminar_curso", Ninguno, curso_id,
                                      200, "Curso eliminado correctamente", SinValores)

eliminar_curso(curso_id) ==
    /\ UNCHANGED <<estudiantes, prueba, sesiones>>
    /\ IF curso_id \notin DOMAIN cursos
       THEN /\ respuesta' = Respuesta("eliminar_curso", Ninguno, curso_id,
                                      404, "Curso no encontrado", SinValores)
            /\ UNCHANGED <<cursos, matriculas>>
       ELSE /\ matriculas' = Borrar(matriculas, FilasCurso(matriculas, curso_id))
            /\ cursos' = Quitar(cursos, curso_id)
            /\ respuesta' = Respuesta("eliminar_curso", Ninguno, curso_id,
                                      200, "Curso eliminado correctamente", SinValores)

\* -------------------------------------------------------------- creation
\* The id an INSERT stores the row under: the one the body carries, or the
\* rowid SQLite assigns (one more than the largest in the table).
Maximo(S) == IF S = {} THEN 0 ELSE CHOOSE x \in S : \A y \in S : y <= x
IdNuevo(tabla, body) ==
    IF body.id = Ninguno THEN Maximo(DOMAIN tabla) + 1 ELSE body.id

\* session.add(obj), commit: the response status and the table afterwards
Agregar(tabla, campos, body) ==
    LET id == IdNuevo(tabla, body)
    IN IF id \in DOMAIN tabla
       THEN [status |-> 500, tabla |-> tabla]
       ELSE [status |-> 201,
             tabla |-> [x \in (DOMAIN tabla \cup {id}) |->
                           IF x = id THEN Fila(campos, body) ELSE tabla[x]]]

crear_estudiante(body) ==
    /\ IdNuevo(estudiantes, body) \in EstIds
    /\ UNCHANGED <<cursos, matriculas, prueba, sesiones>>
    /\ IF \E x \in DOMAIN estudiantes : estudiantes[x].cedula = body.cedula
       THEN /\ respuesta' = Respuesta("crear_estudiante", body.id, Ninguno, 409,
                                      "Ya existe un estudiante con esa cedula",
                                      SinValores)
            /\ UNCHANGED estudiantes
       ELSE LET r == Agregar(estudiantes, CamposEstudiante, body)
            IN /\ estudiantes' = r.tabla
               /\ respuesta' = Respuesta("crear_estudiante", body.id, Ninguno,
                                         r.status,
                                         IF r.status = 201
                                         THEN "Estudiante creado correctamente"
                                         ELSE "IntegrityError",
                                         SinValores)

crear_curso(body) ==
    /\ IdNuevo(cursos, body) \in CurIds
    /\ UNCHANGED <<estudiantes, matriculas, prueba, sesiones>>
    /\ IF \E x \in DOMAIN cursos : cursos[x].codigo = body.codigo
       THEN /\ respuesta' = Respuesta("crear_curso", Ninguno, body.id, 409,
                                      "Ya existe un curso con ese codigo", SinValores)
            /\ UNCHANGED cursos
       ELSE LET r == Agregar(cursos, CamposCurso, body)
            IN /\ cursos' = r.tabla
               /\ respuesta' = Respuesta("crear_curso", Ninguno, body.id, r.status,
                                         IF r.status = 201
                                         THEN "Curso creado correctamente"
                                         ELSE "IntegrityError",
                                         SinValores)

\* ---------------------------------------------------------------- updates
\* Mutant of Actualizar: the column has no unique index.
ActualizarSinUnico(tabla, unico, id, data) ==
    LET nuevo_id == IF "id" \in DOMAIN data THEN data.id ELSE id
        fila == [f \in DOMAIN tabla[id] |->
                    IF f \in DOMAIN data THEN data[f] ELSE tabla[id][f]]
    IN IF nuevo_id # id /\ nuevo_id \in DOMAIN tabla
       THEN [status |-> 500, tabla |-> tabla]
       ELSE [status |-> 200,
             tabla |-> [x \in ((DOMAIN tabla \ {id}) \cup {nuevo_id}) |->
                           IF x = nuevo_id THEN fila ELSE tabla[x]]]

\* for key, value in data.model_dump(exclude_unset=True).items():
\*     setattr(obj, key, value)
\* then add, commit: data holds the keys the request body carries, id among
\* them when the body has one (id is a field of the body's class), and every
\* key is assigned, the primary key too.  The UPDATE fails on the primary key
\* or on the unique index of the column unico, and then nothing is written.
Actualizar(tabla, unico, id, data) ==
    LET nuevo_id == IF "id" \in DOMAIN data THEN data.id ELSE id
        fila == [f \in DOMAIN tabla[id] |->
                    IF f \in DOMAIN data THEN data[f] ELSE tabla[id][f]]
    IN IF \/ (nuevo_id # id /\ nuevo_id \in DOMAIN tabla)
          \/ \E x \in DOMAIN tabla \ {id} : tabla[x][unico] = fila[unico]
       THEN [status |-> 500, tabla |-> tabla]
       ELSE [status |-> 200,
             tabla |-> [x \in ((DOMAIN tabla \ {id}) \cup {nuevo_id}) |->
                           IF x = nuevo_id THEN fila ELSE tabla[x]]]

\* PUT /estudiantes/{estudiante_id}: the matricula rows are not touched,
\* whatever the body carries.
actualizar_estudiante(estudiante_id, data) ==
    /\ UNCHANGED <<cursos, matriculas, prueba, sesiones>>
    /\ IF estudiante_id \notin DOMAIN estudiantes
       THEN /\ respuesta' = Respuesta("actualizar_estudiante", estudiante_id, Ninguno,
                                      404, "Estudiante no encontrado", data)
            /\ UNCHANGED estudiantes
       ELSE LET r == Actualizar(estudiantes, "cedula", estudiante_id, data)
            IN /\ estudiantes' = r.tabla
               /\ respuesta' = Respuesta("actualizar_estudiante", estudiante_id,
                                         Ninguno, r.status,
                                         IF r.status = 200 THEN "Estudiante actualizado"
                                         ELSE "IntegrityError", data)

\* PUT /cursos/{curso_id}: the new values are stored without a look at the
\* students enrolled in the course.
actualizar_curso(curso_id, data) ==
    /\ UNCHANGED <<estudiantes, matriculas, prueba, sesiones>>
    /\ IF curso_id \notin DOMAIN cursos
       THEN /\ respuesta' = Respuesta("actualizar_curso", Ninguno, curso_id,
                                      404, "Curso no encontrado", data)
            /\ UNCHANGED cursos
       ELSE LET r == Actualizar(cursos, "codigo", curso_id, data)
            IN /\ cursos' = r.tabla
               /\ respuesta' = Respuesta("actualizar_curso", Ninguno, curso_id,
                                         r.status,
                                         IF r.status = 200 THEN "Curso actualizado"
                                         ELSE "IntegrityError", data)

\* --------------------------------------------------------- specification
\* Reglas de Negocio of the API description, as a predicate of a database
ReglasDeNegocio(est, cur, mat) ==
    /\ \A m \in BagToSet(mat) :
          m[1] \in DOMAIN est /\ m[2] \in DOMAIN cur /\ CopiesIn(m, mat) = 1
    /\ \A e \in DOMAIN est :
          /\ CreditosActuales(cur, mat, e) <= CREDITOS_MAXIMOS_POR_SEMESTRE
          /\ \A a, b \in CursosActuales(cur, mat, e) :
                a # b => ~horarios_conflicto(cur[a].horario, cur[b].horario)
    /\ \A c \in DOMAIN cur :
          Cuantas(mat, FilasCurso(mat, c)) <= CupoSolicitado(cur, c)

EstudiantesIniciales(ids) == [i \in ids |-> Fila(CamposEstudiante, CuerpoEstudiante(i))]
CursosIniciales(ids) == [i \in ids |-> Fila(CamposCurso, CuerpoCurso(i))]

\* One use of horarios_conflicto: the windows a and b in minutes, the two
\* strings the function is given, and what it returns in each order.
PruebaDe(a, b) ==
    [a |-> a, b |-> b, horario1 |-> Formatear(a), horario2 |-> Formatear(b),
     resultado |-> horarios_conflicto(Formatear(a), Formatear(b)),
     inverso |-> horarios_conflicto(Formatear(b), Formatear(a))]

\* The clients whose requests run at the same time, and a session with
\* nothing to commit.
Clientes == {"A", "B"}
Libre == [op |-> "libre", estudiante_id |-> Ninguno, curso_id |-> Ninguno]

\* The database file the process finds when it starts: on_startup creates the
\* missing tables and keeps the rows a previous run left, rows that obey the
\* rules of the API.
Init ==
    /\ estudiantes \in {EstudiantesIniciales(S) : S \in SUBSET EstIds}
    /\ cursos \in {CursosIniciales(S) : S \in SUBSET CurIds}
    /\ matriculas \in {SetToBag(L) : L \in SUBSET ((DOMAIN estudiantes) \X (DOMAIN cursos))}
    /\ ReglasDeNegocio(estudiantes, cursos, matriculas)
    /\ respuesta = Respuesta("inicio", Ninguno, Ninguno, 0, "", SinValores)
    /\ sesiones = [p \in Clientes |-> Libre]
    /\ prueba = PruebaDe(<<420, 540>>, <<540, 660>>)

\* The bodies of POST /estudiantes, with and without an id of their own, and
\* those of POST /cursos, each with its id.
CuerposEstudiante ==
    {CuerpoEstudiante(i) : i \in EstIds}
        \cup {[CuerpoEstudiante(i) EXCEPT !.id = Ninguno] : i \in EstIds}
CuerposCurso == {CuerpoCurso(i) : i \in CurIds}

Next ==
    \/ \E e \in EstIds, c \in CurIds : matricular_estudiante(e, c)
    \/ \E e \in EstIds, c \in CurIds : desmatricular_estudiante(e, c)
    \/ \E e \in EstIds : eliminar_estudiante(e)
    \/ \E e \in EstIds : cancelar_semestre(e)
    \/ \E c \in CurIds : eliminar_curso(c)
    \/ \E body \in CuerposEstudiante : crear_estudiante(body)
    \/ \E body \in CuerposCurso : crear_curso(body)

Spec == Init /\ [][Next]_vars

\* --------------------------------------------------------- SpecHorario
HORA_MINIMA == 7
Tiempos == {h * 60 + m : h \in HORA_MINIMA..MaxHora, m \in {0, 30}}
Ventanas == {v \in Tiempos \X Tiempos : v[1] < v[2]}

InitHorario ==
    /\ estudiantes = EstudiantesIniciales({})
    /\ cursos = CursosIniciales({})
    /\ matriculas = EmptyBag
    /\ respuesta = Respuesta("inicio", Ninguno, Ninguno, 0, "", SinValores)
    /\ sesiones = [p \in Clientes |-> Libre]
    /\ prueba \in {PruebaDe(a, b) : a \in Ventanas, b \in {<<420, 540>>}}

\* The next comparison: the window compared last against a new one
comparar_horarios(v) ==
    /\ prueba' = PruebaDe(prueba.b, v)
    /\ UNCHANGED <<estudiantes, cursos, matriculas, respuesta, sesiones>>

NextHorario == \E v \in Ventanas : comparar_horarios(v)

SpecHorario == InitHorario /\ [][NextHorario]_vars

\* ---------------------------------------------------------- SpecValidar
\* CursoBase.validar_horario, the field validator of horario: the error it
\* raises for the string v, or "" when it returns v.
HORA_MAXIMA == 22
EsEntero(s) ==
    /\ Len(s) > 0
    /\ \A i \in 1..Len(s) : \E d \in 1..10 : Digitos[d] = s[i]
validar_horario(v) ==
    LET partes == Split(v, "-")
        inicio == Split(partes[1], ":")
        fin == Split(partes[2], ":")
    IN
    IF \/ Len(partes) # 2
       \/ Len(inicio) # 2 \/ Len(fin) # 2
       \/ \E t \in {inicio[1], inicio[2], fin[1], fin[2]} : ~EsEntero(t)
    THEN "Formato de horario invalido. Use HH:MM-HH:MM"
    ELSE
    LET h_inicio == Entero(inicio[1])
        m_inicio == Entero(inicio[2])
        h_fin == Entero(fin[1])
        m_fin == Entero(fin[2])
        duracion == (h_fin * 60 + m_fin) - (h_inicio * 60 + m_inicio)
    IN
    IF h_inicio < HORA_MINIMA \/ h_fin > HORA_MAXIMA
    THEN "El horario debe estar entre 07:00 y 22:00"
    ELSE IF duracion <= 0
    THEN "La hora de fin debe ser posterior a la hora de inicio"
    ELSE IF duracion < 60
    THEN "La clase debe durar al menos 1 hora"
    ELSE IF duracion > 240
    THEN "La clase no puede durar mas de 4 horas"
    ELSE ""

\* One use of validar_horario: the clock times the string was written from,
\* in minutes since midnight, the string, and whether it was accepted.
\* bien_formado is FALSE for a string that is not of the form HH:MM-HH:MM.
PruebaValidar(bien_formado, inicio, fin, v) ==
    [bien_formado |-> bien_formado, inicio |-> inicio, fin |-> fin,
     horario |-> v, error |-> validar_horario(v), aceptado |-> validar_horario(v) = ""]

\* Clock times on the half hour from one hour before the range to one hour
\* after it, and a string without the dash.
HorasValidar == (HORA_MINIMA - 1)..(HORA_MAXIMA + 1)
TiemposValidar == {h * 60 + m : h \in HorasValidar, m \in {0, 30}}
SinGuion == <<"0", "7", ":", "0", "0">>

InitValidar ==
    /\ estudiantes = EstudiantesIniciales({})
    /\ cursos = CursosIniciales({})
    /\ matriculas = EmptyBag
    /\ respuesta = Respuesta("inicio", Ninguno, Ninguno, 0, "", SinValores)
    /\ sesiones = [p \in Clientes |-> Libre]
    /\ prueba = PruebaValidar(TRUE, 420, 540, H0709)

\* The next window: from the end of the one validated last to a new time
validar_ventana(fin) ==
    /\ prueba' = PruebaValidar(TRUE, prueba.fin, fin, Formatear(<<prueba.fin, fin>>))
    /\ UNCHANGED <<estudiantes, cursos, matriculas, respuesta, sesiones>>

validar_texto(v) ==
    /\ prueba' = PruebaValidar(FALSE, 0, 0, v)
    /\ UNCHANGED <<estudiantes, cursos, matriculas, respuesta, sesiones>>

NextValidar ==
    \/ \E fin \in TiemposValidar : validar_ventana(fin)
    \/ validar_texto(SinGuion)

SpecValidar == InitValidar /\ [][NextValidar]_vars

\* ------------------------------------------------------ SpecEstudiantes
\* The bodies of PUT /estudiantes/{id}: a cedula, or an id.
CuerposActualizarEstudiante ==
    {[cedula |-> CedulaDe(j)] : j \in EstIds} \cup {[id |-> k] : k \in EstIds}

NextEstudiantes ==
    \/ \E body \in CuerposEstudiante : crear_estudiante(body)
    \/ \E e \in EstIds, data \in CuerposActualizarEstudiante :
          actualizar_estudiante(e, data)
    \/ \E e \in EstIds : eliminar_estudiante(e)

SpecEstudiantes == Init /\ [][NextEstudiantes]_vars

\* ------------------------------------------------------- SpecActualizar
\* A timetable of back-to-back windows of two hours from 07:00, the first
\* course of 10 credits and the others of 5, and the bodies of
\* PUT /cursos/{id}: a credit weight or a window, both of them valid values.
CuerpoCursoSeguido(i) ==
    [CuerpoCurso(i) EXCEPT
        !.creditos = IF i = 1 THEN 10 ELSE 5,
        !.horario = Formatear(<<420 + 120 * (i - 1), 420 + 120 * i>>)]
CuerposActualizarCurso == {[creditos |-> 10], [horario |-> H0810]}

InitActualizar ==
    /\ estudiantes \in {EstudiantesIniciales(S) : S \in SUBSET EstIds}
    /\ cursos = [i \in CurIds |-> Fila(CamposCurso, CuerpoCursoSeguido(i))]
    /\ matriculas \in {SetToBag(L) : L \in SUBSET ((DOMAIN estudiantes) \X (DOMAIN cursos))}
    /\ ReglasDeNegocio(estudiantes, cursos, matriculas)
    /\ respuesta = Respuesta("inicio", Ninguno, Ninguno, 0, "", SinValores)
    /\ sesiones = [p \in Clientes |-> Libre]
    /\ prueba = PruebaDe(<<420, 540>>, <<540, 660>>)

NextActualizar ==
    \/ Next
    \/ \E e \in EstIds, data \in CuerposActualizarEstudiante :
          actualizar_estudiante(e, data)
    \/ \E c \in CurIds, data \in CuerposActualizarCurso : actualizar_curso(c, data)

SpecActualizar == InitActualizar /\ [][NextActualizar]_vars

\* ------------------------------------------------------ SpecConcurrente
\* The handlers are plain functions, which the server runs on worker
\* threads, each with a session of its own: a request reads and validates
\* against the rows committed so far, and its write reaches the table at
\* session.commit().  Between the two, the requests of other clients run.
empezar_matricular(p, estudiante_id, curso_id) ==
    /\ sesiones[p] = Libre
    /\ UNCHANGED <<estudiantes, cursos, matriculas, prueba>>
    /\ LET v == ValidarMatricula(estudiantes, cursos, matriculas,
                                 estudiante_id, curso_id)
       IN IF v.status # 0
          THEN respuesta' = v /\ UNCHANGED sesiones
          ELSE /\ sesiones' = [sesiones EXCEPT ![p] =
                                  [op |-> "insertar", estudiante_id |-> estudiante_id,
                                   curso_id |-> curso_id]]
               /\ UNCHANGED respuesta

empezar_desmatricular(p, estudiante_id, curso_id) ==
    /\ sesiones[p] = Libre
    /\ UNCHANGED <<estudiantes, cursos, matriculas, prueba>>
    /\ IF FilasPar(matriculas, estudiante_id, curso_id) = {}
       THEN /\ respuesta' = DesmatricularResultado(matriculas, estudiante_id,
                                                   curso_id).respuesta
            /\ UNCHANGED sesiones
       ELSE /\ sesiones' = [sesiones EXCEPT ![p] =
                               [op |-> "borrar", estudiante_id |-> estudiante_id,
                                curso_id |-> curso_id]]
            /\ UNCHANGED respuesta

\* Mutants of CascadaResultado: the commit deletes the target and none of
\* the matricula rows, and the commit deletes the target and one row only.
CascadaSinMatriculas(est, cur, mat, s) ==
    [est |-> IF s.op = "eliminar_estudiante" THEN Quitar(est, s.estudiante_id) ELSE est,
     cur |-> IF s.op = "eliminar_curso" THEN Quitar(cur, s.curso_id) ELSE cur,
     mat |-> mat,
     respuesta |-> Respuesta(s.op, s.estudiante_id, s.curso_id, 200, "", SinValores)]
CascadaUnaFila(est, cur, mat, s) ==
    [est |-> IF s.op = "eliminar_estudiante" THEN Quitar(est, s.estudiante_id) ELSE est,
     cur |-> IF s.op = "eliminar_curso" THEN Quitar(cur, s.curso_id) ELSE cur,
     mat |-> IF s.filas = {} THEN mat
             ELSE Borrar(mat, {CHOOSE m \in s.filas : TRUE}),
     respuesta |-> Respuesta(s.op, s.estudiante_id, s.curso_id, 200, "", SinValores)]

\* session.commit() of a cascade whose session s holds the rows it selected
\* (s.filas): one transaction with every DELETE.  The rows selected are
\* deleted; with the student (course) the flush also deletes the rows that
\* Estudiante.cursos (Curso.estudiantes) finds at that moment, those of the
\* target joined with the other table.  A DELETE that matches no row any
\* more only warns.  cancelar_semestre reads estudiante.nombre after the
\* commit, which fails if the row is gone by then.
CascadaResultado(est, cur, mat, s) ==
    CASE s.op = "eliminar_estudiante" ->
            [est |-> Quitar(est, s.estudiante_id),
             cur |-> cur,
             mat |-> Borrar(mat, s.filas \cup
                               {m \in FilasEstudiante(mat, s.estudiante_id) :
                                   m[2] \in DOMAIN cur}),
             respuesta |-> Respuesta("eliminar_estudiante", s.estudiante_id, Ninguno,
                                     200, "Estudiante y matriculas eliminados",
                                     SinValores)]
      [] s.op = "eliminar_curso" ->
            [est |-> est,
             cur |-> Quitar(cur, s.curso_id),
             mat |-> Borrar(mat, s.filas \cup
                               {m \in FilasCurso(mat, s.curso_id) :
                                   m[1] \in DOMAIN est}),
             respuesta |-> Respuesta("eliminar_curso", Ninguno, s.curso_id,
                                     200, "Curso eliminado correctamente", SinValores)]
      [] OTHER ->
            [est |-> est,
             cur |-> cur,
             mat |-> Borrar(mat, s.filas),
             respuesta |-> IF s.estudiante_id \in DOMAIN est
                           THEN Respuesta("cancelar_semestre", s.estudiante_id, Ninguno,
                                          200, "El estudiante cancelo el semestre",
                                          SinValores)
                           ELSE Respuesta("cancelar_semestre", s.estudiante_id, Ninguno,
                                          500, "ObjectDeletedError", SinValores)]

\* session.commit(): the INSERT meets the primary key; a DELETE that matches
\* no row any more only warns, and the handler still answers 200.
confirmar(p) ==
    /\ sesiones[p] # Libre
    /\ sesiones[p].op # "validar"
    /\ sesiones' = [sesiones EXCEPT ![p] = Libre]
    /\ UNCHANGED prueba
    /\ LET s == sesiones[p]
       IN CASE s.op = "insertar" ->
                 LET r == GuardarMatricula(matriculas, s.estudiante_id, s.curso_id)
                 IN /\ matriculas' = r.mat
                    /\ respuesta' = r.respuesta
                    /\ UNCHANGED <<estudiantes, cursos>>
            [] s.op = "borrar" ->
                 /\ matriculas' = Borrar(matriculas,
                                         FilasPar(matriculas, s.estudiante_id, s.curso_id))
                 /\ respuesta' = Respuesta("desmatricular", s.estudiante_id, s.curso_id,
                                           200, "Estudiante desmatriculado correctamente",
                                           SinValores)
                 /\ UNCHANGED <<estudiantes, cursos>>
            [] OTHER ->
                 LET r == CascadaResultado(estudiantes, cursos, matriculas, s)
                 IN /\ estudiantes' = r.est
                    /\ cursos' = r.cur
                    /\ matriculas' = r.mat
                    /\ respuesta' = r.respuesta

NextConcurrente ==
    \/ \E p \in Clientes, e \in EstIds, c \in CurIds : empezar_matricular(p, e, c)
    \/ \E p \in Clientes, e \in EstIds, c \in CurIds : empezar_desmatricular(p, e, c)
    \/ \E p \in Clientes : confirmar(p)

\* Every student and course of the catalogue exists; the matriculas vary.
InitConcurrente ==
    /\ Init
    /\ DOMAIN estudiantes = EstIds
    /\ DOMAIN cursos = CurIds

SpecConcurrente == InitConcurrente /\ [][NextConcurrente]_vars

\* ---------------------------------------------------------- SpecCascada
\* The requests of two clients, POST /matriculas and the three cascades,
\* step by step.  A session opens no transaction for its SELECTs, so each
\* read sees the rows committed at that moment, while an object it got
\* earlier stays in the session as it was read.

\* tabla as a session sees it that holds the row fila of key id
ConLaFila(tabla, id, fila) ==
    [x \in (DOMAIN tabla \cup {id}) |-> IF x = id THEN fila ELSE tabla[x]]

\* POST /matriculas, the two session.get of the existence check
leer_matricular(p, estudiante_id, curso_id) ==
    /\ sesiones[p] = Libre
    /\ UNCHANGED <<estudiantes, cursos, matriculas, prueba>>
    /\ IF estudiante_id \notin DOMAIN estudiantes \/ curso_id \notin DOMAIN cursos
       THEN /\ respuesta' = ValidarMatricula(estudiantes, cursos, matriculas,
                                             estudiante_id, curso_id)
            /\ UNCHANGED sesiones
       ELSE /\ sesiones' = [sesiones EXCEPT ![p] =
                               [op |-> "validar", estudiante_id |-> estudiante_id,
                                curso_id |-> curso_id,
                                estudiante |-> estudiantes[estudiante_id],
                                curso |-> cursos[curso_id]]]
            /\ UNCHANGED respuesta

\* POST /matriculas, the other four validations, on the rows committed by now
validar_matricular(p) ==
    /\ sesiones[p].op = "validar"
    /\ UNCHANGED <<estudiantes, cursos, matriculas, prueba>>
    /\ LET s == sesiones[p]
           v == ValidarMatricula(ConLaFila(estudiantes, s.estudiante_id, s.estudiante),
                                 ConLaFila(cursos, s.curso_id, s.curso),
                                 matriculas, s.estudiante_id, s.curso_id)
       IN IF v.status # 0
          THEN /\ respuesta' = v
               /\ sesiones' = [sesiones EXCEPT ![p] = Libre]
          ELSE /\ sesiones' = [sesiones EXCEPT ![p] =
                                  [op |-> "insertar", estudiante_id |-> s.estudiante_id,
                                   curso_id |-> s.curso_id]]
               /\ UNCHANGED respuesta

\* The reads of the three cascades: the target, then its matricula rows
empezar_eliminar_estudiante(p, estudiante_id) ==
    /\ sesiones[p] = Libre
    /\ UNCHANGED <<estudiantes, cursos, matriculas, prueba>>
    /\ IF estudiante_id \notin DOMAIN estudiantes
       THEN /\ respuesta' = Respuesta("eliminar_estudiante", estudiante_id, Ninguno,
                                      404, "Estudiante no encontrado", SinValores)
            /\ UNCHANGED sesiones
       ELSE /\ sesiones' = [sesiones EXCEPT ![p] =
                               [op |-> "eliminar_estudiante",
                                estudiante_id |-> estudiante_id, curso_id |-> Ninguno,
                                filas |-> FilasEstudiante(matriculas, estudiante_id)]]
            /\ UNCHANGED respuesta

empezar_eliminar_curso(p, curso_id) ==
    /\ sesiones[p] = Libre
    /\ UNCHANGED <<estudiantes, cursos, matriculas, prueba>>
    /\ IF curso_id \notin DOMAIN cursos
       THEN /\ respuesta' = Respuesta("eliminar_curso", Ninguno, curso_id,
                                      404, "Curso no encontrado", SinValores)
            /\ UNCHANGED sesiones
       ELSE /\ sesiones' = [sesiones EXCEPT ![p] =
                               [op |-> "eliminar_curso",
                                estudiante_id |-> Ninguno, curso_id |-> curso_id,
                                filas |-> FilasCurso(matriculas, curso_id)]]
            /\ UNCHANGED respuesta

empezar_cancelar_semestre(p, estudiante_id) ==
    /\ sesiones[p] = Libre
    /\ UNCHANGED <<estudiantes, cursos, matriculas, prueba>>
    /\ IF estudiante_id \notin DOMAIN estudiantes
       THEN /\ respuesta' = Respuesta("cancelar_semestre", estudiante_id, Ninguno,
                                      404, "Estudiante no encontrado", SinValores)
            /\ UNCHANGED sesiones
       ELSE IF FilasEstudiante(matriculas, estudiante_id) = {}
       THEN /\ respuesta' = Respuesta("cancelar_semestre", estudiante_id, Ninguno,
                                      400, "El estudiante no tiene materias matriculadas",
                                      SinValores)
            /\ UNCHANGED sesiones
       ELSE /\ sesiones' = [sesiones EXCEPT ![p] =
                               [op |-> "cancelar_semestre",
                                estudiante_id |-> estudiante_id, curso_id |-> Ninguno,
                                filas |-> FilasEstudiante(matriculas, estudiante_id)]]
            /\ UNCHANGED respuesta

\* Client A is a student's: it enrolls and cancels terms.  Client B is the
\* administration's: it deletes students and courses.
NextCascada ==
    \/ \E e \in EstIds, c \in CurIds : leer_matricular("A", e, c)
    \/ validar_matricular("A")
    \/ \E e \in EstIds : empezar_cancelar_semestre("A", e)
    \/ \E e \in EstIds : empezar_eliminar_estudiante("B", e)
    \/ \E c \in CurIds : empezar_eliminar_curso("B", c)
    \/ \E p \in Clientes : confirmar(p)

\* Every student and course of the catalogue exists; student 1 holds courses
\* 1 and 2, student 2 holds course 2, and each further student holds the
\* course after its own number.
InitCascada ==
    /\ InitConcurrente
    /\ matriculas = SetToBag(({<<1, 1>>, <<1, 2>>, <<2, 2>>}
                                 \cup {<<e, e + 1>> : e \in EstIds \ {1, 2}})
                              \cap (EstIds \X CurIds))

SpecCascada == InitCascada /\ [][NextCascada]_vars

\* ------------------------------------------------------------- SpecCupo
\* Two clients whose POST /matriculas and DELETE /matriculas interleave: the
\* Enroll of each is its existence reads, its other validations (the count
\* of the rows of the course among them, main.py:501-505) and its commit.
\* Each client is a student who sends the requests with their own id.
EstudianteDe(p) == IF p = "A" THEN 1 ELSE 2

NextCupo ==
    \/ \E p \in Clientes, c \in CurIds : leer_matricular(p, EstudianteDe(p), c)
    \/ \E p \in Clientes : validar_matricular(p)
    \/ \E p \in Clientes, c \in CurIds : empezar_desmatricular(p, EstudianteDe(p), c)
    \/ \E p \in Clientes : confirmar(p)

SpecCupo == InitConcurrente /\ [][NextCupo]_vars

\* ================================================================ claims
\* The violation kinds of the specification, read off a response.
Clase(r) ==
    CASE r.status = 404 -> "NotFound"
      [] r.detail = "El estudiante ya esta matriculado en este curso" -> "AlreadyEnrolled"
      [] r.detail = "Limite de creditos excedido" -> "CreditLimitExceeded"
      [] r.detail = "El curso esta lleno" -> "CourseFull"
      [] r.detail = "Conflicto de horario" -> "ScheduleConflict"
      [] r.status \in {200, 201} -> "Ok"
      [] OTHER -> "Fault"

\* The step is the handling of POST /matriculas (DELETE /matriculas) for
\* the pair (e, c): the response names the request, the action gives the rest.
PasoMatricular(e, c) ==
    /\ respuesta'.op = "matricular"
    /\ respuesta'.estudiante_id = e
    /\ respuesta'.curso_id = c
    /\ matricular_estudiante(e, c)
PasoDesmatricular(e, c) ==
    /\ respuesta'.op = "desmatricular"
    /\ respuesta'.estudiante_id = e
    /\ respuesta'.curso_id = c
    /\ desmatricular_estudiante(e, c)
\* The same for the three cascades.
PasoEliminarEstudiante(e) ==
    /\ respuesta'.op = "eliminar_estudiante"
    /\ respuesta'.estudiante_id = e
    /\ eliminar_estudiante(e)
PasoEliminarCurso(c) ==
    /\ respuesta'.op = "eliminar_curso"
    /\ respuesta'.curso_id = c
    /\ eliminar_curso(c)
PasoCancelarSemestre(e) ==
    /\ respuesta'.op = "cancelar_semestre"
    /\ respuesta'.estudiante_id = e
    /\ cancelar_semestre(e)
\* The same for POST /estudiantes and PUT /estudiantes/{e}.
PasoCrearEstudiante(body) ==
    /\ respuesta'.op = "crear_estudiante"
    /\ respuesta'.estudiante_id = body.id
    /\ crear_estudiante(body)
PasoActualizarEstudiante(e, data) ==
    /\ respuesta'.op = "actualizar_estudiante"
    /\ respuesta'.estudiante_id = e
    /\ respuesta'.valores = data
    /\ actualizar_estudiante(e, data)

\* t2 is the table t without the key k, every other row as it was; and m2 is
\* the matricula table m without the rows of quitadas, the others as they were.
SinLaFila(t, t2, k) ==
    /\ DOMAIN t2 = DOMAIN t \ {k}
    /\ \A x \in DOMAIN t2 : t2[x] = t[x]
SinLasFilas(m, m2, quitadas) ==
    /\ BagToSet(m2) = BagToSet(m) \ quitadas
    /\ \A x \in BagToSet(m2) : CopiesIn(x, m2) = CopiesIn(x, m)

\* The rules of the specification for Enroll(e, c), on the current state.
Existen(e, c) == e \in DOMAIN estudiantes /\ c \in DOMAIN cursos
YaMatriculado(e, c) == BagIn(<<e, c>>, matriculas)
TotalCreditos(e, c) == CreditosActuales(cursos, matriculas, e) + cursos[c].creditos
Inscritos(c) == Cuantas(matriculas, FilasCurso(matriculas, c))
Solapados(e, c) == EnConflicto(cursos, matriculas, e, c)

PuedeMatricular(e, c) ==
    /\ Existen(e, c)
    /\ ~YaMatriculado(e, c)
    /\ TotalCreditos(e, c) <= 20
    /\ Inscritos(c) < CupoSolicitado(cursos, c)
    /\ Solapados(e, c) = {}

Orden == <<"NotFound", "AlreadyEnrolled", "CreditLimitExceeded", "CourseFull",
           "ScheduleConflict">>
Violadas(e, c) ==
    IF ~Existen(e, c) THEN {"NotFound"}
    ELSE {k \in {"AlreadyEnrolled"} : YaMatriculado(e, c)}
         \cup {k \in {"CreditLimitExceeded"} : TotalCreditos(e, c) > 20}
         \cup {k \in {"CourseFull"} : Inscritos(c) >= CupoSolicitado(cursos, c)}
         \cup {k \in {"ScheduleConflict"} : Solapados(e, c) # {}}
Primera(V) == Orden[CHOOSE i \in 1..5 : Orden[i] \in V /\ \A j \in 1..(i - 1) : Orden[j] \notin V]

\* C1: Enroll(s, c) with both records present, no link (s, c), credits within
\* 20, a free seat and no overlapping window succeeds: answer 201, the links
\* become the previous links plus the one link (s, c), students and courses
\* stay as they were.
C1_MatriculaValidaTieneExito ==
    [][\A e \in EstIds, c \in CurIds :
          (PasoMatricular(e, c) /\ PuedeMatricular(e, c))
              => /\ respuesta'.status = 201
                 /\ matriculas' = matriculas (+) SetToBag({<<e, c>>})
                 /\ UNCHANGED <<estudiantes, cursos>>]_vars

\* C2: in every state, whatever the interleaving of the clients' requests,
\* the matricula table holds at most one row per (student, course) pair, and
\* an Enroll of a pair that is already linked is answered AlreadyEnrolled and
\* adds no row.
UnaFilaPorPar == \A m \in BagToSet(matriculas) : CopiesIn(m, matriculas) = 1
C2_UnaMatriculaPorPar ==
    /\ []UnaFilaPorPar
    /\ [][\A p \in Clientes, e \in EstIds, c \in CurIds :
             (YaMatriculado(e, c) /\ empezar_matricular(p, e, c))
                 => /\ Clase(respuesta') = "AlreadyEnrolled"
                    /\ matriculas' = matriculas
                    /\ sesiones'[p] = Libre]_vars
W2_SegundaMatriculaRechazada ==
    /\ Clase(respuesta) = "AlreadyEnrolled"
    /\ CopiesIn(<<respuesta.estudiante_id, respuesta.curso_id>>, matriculas) = 1
    /\ \E p \in Clientes : sesiones[p] # Libre

\* C3: when an Enroll violates several rules at once, the violation returned
\* is that of the earliest violated rule in the order Existence, Duplicate,
\* Credit cap, Capacity, Schedule conflict.
C3_PrimeraReglaViolada ==
    [][\A e \in EstIds, c \in CurIds :
          (PasoMatricular(e, c) /\ Cardinality(Violadas(e, c)) >= 2)
              => Clase(respuesta') = Primera(Violadas(e, c))]_vars

\* C4: an Enroll that does not succeed (any violation, or a fault) leaves the
\* students, the courses and the links exactly as they were.
C4_MatriculaFallidaNoCambiaNada ==
    [][\A e \in EstIds, c \in CurIds :
          (PasoMatricular(e, c) /\ respuesta'.status # 201)
              => UNCHANGED <<estudiantes, cursos, matriculas>>]_vars
W4_FalloConMatriculasIntactas ==
    /\ respuesta.op = "matricular"
    /\ Clase(respuesta) \in {"CreditLimitExceeded", "Fault"}
    /\ matriculas # EmptyBag

\* C5: with existence and duplicate passed, Enroll returns CreditLimitExceeded
\* exactly when current credits plus the new course's credits exceed 20, and
\* the violation carries that total and the limit 20; no link is created.
C5_LimiteDeCreditos ==
    [][\A e \in EstIds, c \in CurIds :
          (PasoMatricular(e, c) /\ Existen(e, c) /\ ~YaMatriculado(e, c))
              => /\ (Clase(respuesta') = "CreditLimitExceeded")
                        <=> (TotalCreditos(e, c) > 20)
                 /\ (TotalCreditos(e, c) > 20)
                        => /\ matriculas' = matriculas
                           /\ \E f \in DOMAIN respuesta'.valores :
                                 respuesta'.valores[f] = TotalCreditos(e, c)
                           /\ \E f \in DOMAIN respuesta'.valores :
                                 respuesta'.valores[f] = 20]_vars

\* C6: with existence, duplicate and credit cap passed and the links on the
\* course at or above its seat capacity, Enroll returns CourseFull carrying
\* the count and the capacity, and no link is created.
C6_CursoLleno ==
    [][\A e \in EstIds, c \in CurIds :
          (/\ PasoMatricular(e, c)
           /\ Existen(e, c) /\ ~YaMatriculado(e, c) /\ TotalCreditos(e, c) <= 20
           /\ Inscritos(c) >= CupoSolicitado(cursos, c))
              => /\ Clase(respuesta') = "CourseFull"
                 /\ respuesta'.valores.estudiantes_inscritos = Inscritos(c)
                 /\ respuesta'.valores.cupo_maximo = CupoSolicitado(cursos, c)
                 /\ matriculas' = matriculas]_vars

\* C7: with the first four rules passed and the new course's window
\* overlapping that of a course the student is enrolled in, Enroll returns
\* ScheduleConflict naming an enrolled course that overlaps, and no link is
\* created.
C7_ConflictoDeHorario ==
    [][\A e \in EstIds, c \in CurIds :
          (/\ PasoMatricular(e, c)
           /\ Existen(e, c) /\ ~YaMatriculado(e, c) /\ TotalCreditos(e, c) <= 20
           /\ Inscritos(c) < CupoSolicitado(cursos, c)
           /\ Solapados(e, c) # {})
              => /\ Clase(respuesta') = "ScheduleConflict"
                 /\ respuesta'.valores.curso_actual \in Solapados(e, c)
                 /\ matriculas' = matriculas]_vars

\* C8: horarios_conflicto(a, b) is true exactly when a.start < b.end and
\* b.start < a.end, the boundaries in minutes since midnight; windows that
\* only touch do not conflict.
C8_SolapamientoSemiabierto ==
    prueba.resultado = (prueba.a[1] < prueba.b[2] /\ prueba.b[1] < prueba.a[2])
W8_VentanasQueSeTocan ==
    /\ prueba.horario1 = H0709
    /\ prueba.horario2 = H0911
    /\ prueba.resultado = FALSE

\* C9: horarios_conflicto(a, b) equals horarios_conflicto(b, a).
C9_ConflictoSimetrico == prueba.resultado = prueba.inverso
W9_ConflictoEnAmbosOrdenes ==
    /\ prueba.horario1 = H0709
    /\ prueba.horario2 = H0810
    /\ prueba.resultado
    /\ prueba.inverso

\* C10: Unenroll(s, c) of an existing link answers 200 and removes exactly
\* that link, every other link, student and course unchanged; without the
\* link it answers NotFound and changes nothing.
C10_DesmatricularQuitaSoloEsaMatricula ==
    [][\A e \in EstIds, c \in CurIds :
          PasoDesmatricular(e, c)
              => /\ UNCHANGED <<estudiantes, cursos>>
                 /\ IF YaMatriculado(e, c)
                    THEN /\ respuesta'.status = 200
                         /\ BagToSet(matriculas') = BagToSet(matriculas) \ {<<e, c>>}
                         /\ \A m \in BagToSet(matriculas') :
                               CopiesIn(m, matriculas') = CopiesIn(m, matriculas)
                    ELSE /\ Clase(respuesta') = "NotFound"
                         /\ matriculas' = matriculas]_vars
W10_QuedanLasOtrasMatriculas ==
    /\ respuesta.op = "desmatricular"
    /\ respuesta.status = 200
    /\ ~BagIn(<<respuesta.estudiante_id, respuesta.curso_id>>, matriculas)
    /\ \E m \in BagToSet(matriculas) : m[1] = respuesta.estudiante_id

\* C11: DeleteStudent(s) of an existing student answers 200, removes the
\* student row and every link of s, and leaves the other students, the
\* courses and the other students' links as they were, so that no pair
\* (s, c) is found afterwards; of a student that does not exist it answers
\* NotFound and deletes nothing.
C11_EliminarEstudianteEnCascada ==
    [][\A e \in EstIds :
          PasoEliminarEstudiante(e)
              => /\ UNCHANGED cursos
                 /\ IF e \in DOMAIN estudiantes
                    THEN /\ respuesta'.status = 200
                         /\ SinLaFila(estudiantes, estudiantes', e)
                         /\ SinLasFilas(matriculas, matriculas',
                                        {m \in BagToSet(matriculas) : m[1] = e})
                         /\ \A c \in CurIds : ~BagIn(<<e, c>>, matriculas')
                    ELSE /\ Clase(respuesta') = "NotFound"
                         /\ UNCHANGED <<estudiantes, matriculas>>]_vars
W11_EstudianteEliminadoQuedanOtros ==
    /\ respuesta.op = "eliminar_estudiante"
    /\ respuesta.status = 200
    /\ respuesta.estudiante_id \notin DOMAIN estudiantes
    /\ \A m \in BagToSet(matriculas) : m[1] # respuesta.estudiante_id
    /\ matriculas # EmptyBag

\* C12: DeleteCourse(c) of an existing course answers 200 and removes the
\* course row and every link on c, students and links on other courses as
\* they were; a course without links gets one only by an Enroll into it that
\* answers 201, and while it has none every Unenroll(s, c) answers NotFound.
C12_EliminarCursoEnCascada ==
    /\ [][\A c \in CurIds :
             (PasoEliminarCurso(c) /\ c \in DOMAIN cursos)
                 => /\ respuesta'.status = 200
                    /\ SinLaFila(cursos, cursos', c)
                    /\ SinLasFilas(matriculas, matriculas',
                                   {m \in BagToSet(matriculas) : m[2] = c})
                    /\ UNCHANGED estudiantes]_vars
    /\ [][\A c \in CurIds :
             (/\ \A m \in BagToSet(matriculas) : m[2] # c
              /\ \E m \in BagToSet(matriculas') : m[2] = c)
                 => /\ respuesta'.op = "matricular"
                    /\ respuesta'.curso_id = c
                    /\ respuesta'.status = 201]_vars
    /\ [][\A e \in EstIds, c \in CurIds :
             (PasoDesmatricular(e, c) /\ \A m \in BagToSet(matriculas) : m[2] # c)
                 => /\ Clase(respuesta') = "NotFound"
                    /\ UNCHANGED matriculas]_vars
W12_CursoEliminadoQuedanOtros ==
    /\ respuesta.op = "eliminar_curso"
    /\ respuesta.status = 200
    /\ respuesta.curso_id \notin DOMAIN cursos
    /\ \A m \in BagToSet(matriculas) : m[2] # respuesta.curso_id
    /\ matriculas # EmptyBag

\* C13: CancelTerm(s) of an existing student without links answers 400
\* "no tiene materias matriculadas" and changes nothing; with one link or
\* more it answers 200 and removes the links of s and only those, the
\* student row, the courses and the other students' links as they were.
C13_CancelarSemestre ==
    [][\A e \in EstIds :
          (PasoCancelarSemestre(e) /\ e \in DOMAIN estudiantes)
              => /\ UNCHANGED <<estudiantes, cursos>>
                 /\ IF \A m \in BagToSet(matriculas) : m[1] # e
                    THEN /\ respuesta'.status = 400
                         /\ respuesta'.detail =
                               "El estudiante no tiene materias matriculadas"
                         /\ UNCHANGED matriculas
                    ELSE /\ respuesta'.status = 200
                         /\ SinLasFilas(matriculas, matriculas',
                                        {m \in BagToSet(matriculas) : m[1] = e})]_vars
W13_SemestreCanceladoQuedanOtros ==
    /\ respuesta.op = "cancelar_semestre"
    /\ respuesta.status = 200
    /\ respuesta.estudiante_id \in DOMAIN estudiantes
    /\ \A m \in BagToSet(matriculas) : m[1] # respuesta.estudiante_id
    /\ matriculas # EmptyBag

\* C14: in every state reachable by creates, updates, deletes, enrolls,
\* unenrolls and cancel-terms, every link references a student that exists
\* and a course that exists.
C14_IntegridadReferencial ==
    \A m \in BagToSet(matriculas) :
        m[1] \in DOMAIN estudiantes /\ m[2] \in DOMAIN cursos

\* C15: in every reachable state, updates of a course's credit weight while
\* students are enrolled included, the credits of the courses each student
\* is enrolled in add up to 20 at most.
C15_CreditosDentroDelLimite ==
    \A e \in DOMAIN estudiantes :
        Suma([c \in DOMAIN cursos |-> cursos[c].creditos],
             {c \in DOMAIN cursos : BagIn(<<e, c>>, matriculas)})
            <= CREDITOS_MAXIMOS_POR_SEMESTRE

\* C16: whatever fields an update request on an existing student carries,
\* the student is found under the same id after actualizar_estudiante as
\* before, and every link of the student still references it.
C16_IdentificadorInmutable ==
    [][\A e \in EstIds, data \in CuerposActualizarEstudiante :
          (PasoActualizarEstudiante(e, data) /\ e \in DOMAIN estudiantes)
              => /\ DOMAIN estudiantes' = DOMAIN estudiantes
                 /\ \A m \in BagToSet(matriculas') :
                       m[1] = e => m[1] \in DOMAIN estudiantes'
                 /\ {m \in BagToSet(matriculas') : m[1] = e}
                       = {m \in BagToSet(matriculas) : m[1] = e}]_vars

\* C17: validar_horario accepts a window exactly when its start and its end
\* lie within 07:00..22:00 (420 <= start and end <= 1320 in minutes), the end
\* is after the start and the duration is between 60 and 240 minutes; any
\* other string is rejected.
C17_HorarioValidoEnRango ==
    prueba.aceptado
        <=> /\ prueba.bien_formado
            /\ 420 <= prueba.inicio
            /\ prueba.fin <= 1320
            /\ prueba.inicio < prueba.fin
            /\ prueba.fin - prueba.inicio >= 60
            /\ prueba.fin - prueba.inicio <= 240

\* C18: in every state reachable by creates and updates of students no two
\* students have the same cedula, and a create with a cedula that a student
\* already has is answered 409 and changes nothing.
C18_CedulaUnica ==
    /\ [](\A a, b \in DOMAIN estudiantes :
             a # b => estudiantes[a].cedula # estudiantes[b].cedula)
    /\ [][\A body \in CuerposEstudiante :
             (/\ PasoCrearEstudiante(body)
              /\ \E x \in DOMAIN estudiantes : estudiantes[x].cedula = body.cedula)
                 => /\ respuesta'.status = 409
                    /\ UNCHANGED <<estudiantes, cursos, matriculas>>]_vars
W18_CedulaRepetidaRechazada ==
    /\ respuesta.op = "actualizar_estudiante"
    /\ respuesta.status = 500
    /\ "cedula" \in DOMAIN respuesta.valores
    /\ respuesta.estudiante_id \in DOMAIN estudiantes
    /\ \E x \in DOMAIN estudiantes \ {respuesta.estudiante_id} :
          estudiantes[x].cedula = respuesta.valores.cedula

\* C19: however an Enroll(s, c), its reads and then its one insert, is
\* interleaved with a DeleteStudent(s) or DeleteCourse(c) cascade, once the
\* requests have completed no link references a student or a course that
\* was deleted.
C19_SinMatriculasHuerfanasAlTerminar ==
    (\A p \in Clientes : sesiones[p] = Libre)
        => \A m \in BagToSet(matriculas) :
              m[1] \in DOMAIN estudiantes /\ m[2] \in DOMAIN cursos
W19_MatriculaTerminaTrasLaCascada ==
    /\ \A p \in Clientes : sesiones[p] = Libre
    /\ respuesta.op = "matricular"
    /\ respuesta.status # 404
    /\ \/ respuesta.estudiante_id \notin DOMAIN estudiantes
       \/ respuesta.curso_id \notin DOMAIN cursos
    /\ matriculas # EmptyBag

\* C20: a cascade (DeleteStudent, DeleteCourse, CancelTerm) is applied as
\* one unit: in no state is a student or course gone while links on it
\* remain, and a step that removes a link removes with it every link of
\* that student or every link on that course.
C20_CascadaEnUnSoloPaso ==
    /\ [](\A m \in BagToSet(matriculas) :
             m[1] \in DOMAIN estudiantes /\ m[2] \in DOMAIN cursos)
    /\ [][\A m \in BagToSet(matriculas) \ BagToSet(matriculas') :
             \/ \A x \in BagToSet(matriculas') : x[1] # m[1]
             \/ \A x \in BagToSet(matriculas') : x[2] # m[2]]_vars
W20_CascadaConOtraEnCurso ==
    /\ respuesta.op = "eliminar_estudiante"
    /\ respuesta.status = 200
    /\ respuesta.estudiante_id \notin DOMAIN estudiantes
    /\ \A m \in BagToSet(matriculas) : m[1] # respuesta.estudiante_id
    /\ matriculas # EmptyBag
    /\ \E p \in Clientes :
          /\ sesiones[p].op = "cancelar_semestre"
          /\ sesiones[p].estudiante_id = respuesta.estudiante_id
          /\ Cardinality(sesiones[p].filas) >= 2
C22_SinSolapesTrasActualizarHorario ==
    \A e \in DOMAIN estudiantes :
        \A a, b \in CursosActuales(cursos, matriculas, e) :
            a # b => ~horarios_conflicto(cursos[a].horario, cursos[b].horario)

====
